---- MODULE Spec2Model ----
(***************************************************************************)
(* Model of the data pipeline of the energy-consumption analyser:          *)
(* DataHandler (src/source/data_handler.py) and the fetch-and-statistics   *)
(* handler of the PySide6 window (src/source/main.py).                     *)
(*                                                                         *)
(* A cell of a record or of the dataframe is [k |-> kind, v |-> value]:    *)
(*   raw kinds      "absent"  the key is not in the JSON object            *)
(*                  "null"    JSON null                                    *)
(*                  "str"     a string that is neither a number nor a date *)
(*                  "numstr"  a string that reads as the number v          *)
(*                  "num"     the number v                                 *)
(*                  "datestr" a string that reads as the instant v         *)
(*   frame kinds    "nan"     NaN / None (missing value)                   *)
(*                  "dt"      the Timestamp v                              *)
(*                  "nat"     NaT (timestamp that failed to parse)         *)
(***************************************************************************)
EXTENDS Integers, Sequences, FiniteSets, TLC

VARIABLES dataframe, response, last

vars == <<dataframe, response, last>>

\* Largest number of records in one API response.
MaxRows == 2

----------------------------------------------------------------------------
(* Column names *)

date_heure == "date_heure"

consumption_cols ==
    << "consommation_brute_gaz_grtgaz", "consommation_brute_gaz_terega",
       "consommation_brute_gaz_totale", "consommation_brute_electricite_rte",
       "consommation_brute_totale" >>

ConsumptionSet == { consumption_cols[i] : i \in DOMAIN consumption_cols }

Fields == {date_heure} \cup ConsumptionSet

stats_column_name == "consommation_brute_totale"

summary_cols ==
    << "consommation_brute_electricite_rte", "consommation_brute_gaz_totale" >>

options ==
    << "consommation_brute_electricite_rte", "consommation_brute_gaz_totale",
       "consommation_brute_totale", "consommation_brute_gaz_grtgaz",
       "consommation_brute_gaz_terega" >>

----------------------------------------------------------------------------
(* Cells *)

Cell(kind, value) == [k |-> kind, v |-> value]

Absent == Cell("absent", 0)
NaN    == Cell("nan", 0)
NaT    == Cell("nat", 0)

isna(c) == c.k \in {"nan", "nat"}

\* One JSON object of the `results` array: every field of the schema mapped
\* to a raw cell ("absent" when the object has no such key).
RawRecord(dh, grt, ter, gtot, rte, tot) ==
    [f \in Fields |->
        CASE f = date_heure -> dh
          [] f = "consommation_brute_gaz_grtgaz" -> grt
          [] f = "consommation_brute_gaz_terega" -> ter
          [] f = "consommation_brute_gaz_totale" -> gtot
          [] f = "consommation_brute_electricite_rte" -> rte
          [] OTHER -> tot]

\* The records a response is built from: the empty object; the scenario
\* record of the specification (a numeric string, every other column
\* missing); a later record with a number, a numeric string, a null and a
\* non-numeric string; a record whose timestamp and total do not parse
\* ("not-a-number"); a record without a timestamp.  A response may hold the
\* same record twice, which gives rows with equal timestamps.
RawRecords ==
    { RawRecord(Absent, Absent, Absent, Absent, Absent, Absent),
      RawRecord(Cell("datestr", 1), Absent, Absent, Absent, Absent, Cell("numstr", 1)),
      RawRecord(Cell("datestr", 2), Cell("num", 1), Cell("str", 0), Cell("null", 0),
                Cell("numstr", 1), Cell("num", 2)),
      RawRecord(Cell("str", 0), Absent, Absent, Absent, Cell("num", 2), Cell("str", 0)),
      RawRecord(Absent, Absent, Absent, Cell("num", 2), Absent, Cell("num", 1)) }

RecordLists == UNION { [1..n -> RawRecords] : n \in 1..MaxRows }

\* What one HTTP exchange can bring back.
\*   neterr        requests.get raises (connection error, timeout)
\*   httperr       raise_for_status raises (4xx, 5xx)
\*   badjson       response.json() raises
\*   scalar        the JSON document is a number or null
\*   noresults     a JSON object without the key `results`
\*   emptyresults  `results` is empty ([], null, 0, "")
\*   badresults    `results` is a non-empty value that is no table (5, "x")
\*   records       `results` is a non-empty list of objects
FailureKinds ==
    {"neterr", "httperr", "badjson", "scalar", "noresults", "emptyresults", "badresults"}

Responses ==
    { [kind |-> k, results |-> << >>] : k \in FailureKinds }
      \cup { [kind |-> "records", results |-> rs] : rs \in RecordLists }

NoResponse == [kind |-> "none", results |-> << >>]

----------------------------------------------------------------------------
(* The dataframe *)

\* pd.DataFrame(): no rows, no columns.
EmptyFrame == [cols |-> {}, rows |-> << >>]

\* DataFrame.empty: true when either axis has length 0.
empty(df) == df.cols = {} \/ Len(df.rows) = 0

\* pd.DataFrame(list of dicts): the columns are the keys that occur in some
\* record; a record without a key, or with null, holds a missing value
\* there.  Row i keeps the index label i.
DataFrame(results) ==
    LET cols == { f \in Fields : \E i \in DOMAIN results : results[i][f].k # "absent" }
    IN  [cols |-> cols,
         rows |-> [i \in DOMAIN results |->
                    [idx |-> i,
                     cells |-> [c \in cols |->
                        IF results[i][c].k \in {"absent", "null"}
                        THEN NaN ELSE results[i][c]]]]]

----------------------------------------------------------------------------
(* Normalisation: DataHandler._process_data *)

\* A parser that accepts text only and does not know a value that is
\* already a Timestamp.
to_datetime_text_only(c) ==
    IF c.k = "datestr" THEN Cell("dt", c.v) ELSE NaT

\* pd.to_datetime(..., errors='coerce') on one value: a date string or a
\* number (nanoseconds since the epoch) becomes a Timestamp, a Timestamp
\* stays, anything else becomes NaT.
to_datetime(c) ==
    IF c.k \in {"datestr", "num", "dt"} THEN Cell("dt", c.v) ELSE NaT

\* pd.to_numeric(..., errors='coerce') on one value: a number stays, a
\* string that reads as a number becomes that number, anything else NaN.
to_numeric(c) ==
    IF c.k \in {"num", "numstr"} THEN Cell("num", c.v) ELSE NaN

fillna(c, value) == IF isna(c) THEN Cell("num", value) ELSE c

\* The rows with every date_heure cell parsed.
ParseDates(rows) ==
    [i \in DOMAIN rows |->
        [rows[i] EXCEPT !.cells[date_heure] = to_datetime(@)]]

\* The rows left in the order they arrived in.
sort_values_unsorted(rows) == {rows}

\* DataFrame.sort_values('date_heure'): ascending, na_position='last',
\* kind='quicksort'.  The rows with a timestamp come first in ascending
\* order, then the NaT rows in the order they had.  quicksort is not a
\* stable sort (pandas documents only 'mergesort' and 'stable' as stable):
\* the order among rows with equal timestamps is whatever the build yields,
\* so every such order is an outcome.
sort_values(rows) ==
    LET n == Len(rows)
        ts(r) == r.cells[date_heure]
    IN  { [i \in 1..n |-> rows[p[i]]] : p \in
            { q \in Permutations(1..n) :
                \A i, j \in 1..n : i < j =>
                    LET a == ts(rows[q[i]])
                        b == ts(rows[q[j]])
                    IN  /\ isna(a) => isna(b)
                        /\ (~isna(a) /\ ~isna(b)) => a.v <= b.v
                        /\ (isna(a) /\ isna(b)) => q[i] < q[j] } }

\* The columns of a frame once the five consumption columns exist.
WithConsumption(cols) == { c \in Fields : c \in cols \/ c \in ConsumptionSet }

\* Lines 81-92 on one row: each consumption column is coerced and
\* zero-filled when the frame has it, and created as 0 when it has not.
ConsumptionCells(cols, cells) ==
    [c \in WithConsumption(cols) |->
        IF c \in ConsumptionSet
        THEN IF c \in cols THEN fillna(to_numeric(cells[c]), 0) ELSE Cell("num", 0)
        ELSE cells[c]]

\* _process_data as a relation: the frames one call may leave behind.
process_data(df) ==
    IF empty(df) THEN {df}
    ELSE LET ordered == IF date_heure \in df.cols
                        THEN sort_values(ParseDates(df.rows))
                        ELSE {df.rows}
         IN  { [cols |-> WithConsumption(df.cols),
                rows |-> [i \in DOMAIN rs |->
                    [idx |-> rs[i].idx,
                     cells |-> ConsumptionCells(df.cols, rs[i].cells)]]] : rs \in ordered }

----------------------------------------------------------------------------
(* DataHandler.fetch_data_from_api *)

Success           == "Success"
EmptyResult       == "EmptyResult"
TransportFailure  == "TransportFailure"
UnexpectedFailure == "UnexpectedFailure"

\* A fetch that reports an empty result as a success.
FetchReturnEmptyIsSuccess(outcome) == outcome \in {Success, EmptyResult}

\* The boolean each exit of fetch_data_from_api returns (lines 51, 56, 60, 64).
FetchReturn(outcome) == outcome = Success

\* An exit that reaches an except clause after a second requests.get.
FetchExitRetrying(df, outcome) ==
    [dataframe |-> df, outcome |-> outcome, ret |-> FetchReturn(outcome),
     gets |-> IF outcome \in {TransportFailure, UnexpectedFailure} THEN 2 ELSE 1]

\* One exit of the call: the dataframe it leaves, the boolean it returns
\* and the number of requests.get calls made on the way (line 44 is the
\* only one and is in no loop; no except clause calls it again).
FetchExit(df, outcome) ==
    [dataframe |-> df, outcome |-> outcome, ret |-> FetchReturn(outcome),
     gets |-> 1]

\* A fetch that appends the new rows to the ones it had and leaves the
\* frame alone when the request fails.
fetch_merging(self, resp) ==
    CASE resp.kind = "records" ->
            { FetchExit([cols |-> { c \in Fields : c \in self.cols \/ c \in d.cols },
                         rows |-> [i \in 1..(Len(self.rows) + Len(d.rows)) |->
                            LET r == IF i <= Len(self.rows) THEN self.rows[i]
                                     ELSE d.rows[i - Len(self.rows)]
                            IN  [idx |-> i,
                                 cells |-> [c \in { x \in Fields : x \in self.cols \/ x \in d.cols } |->
                                    IF c \in DOMAIN r.cells THEN r.cells[c] ELSE NaN]]]],
                        Success)
              : d \in process_data(DataFrame(resp.results)) }
      [] resp.kind \in {"noresults", "emptyresults"} -> {FetchExit(self, EmptyResult)}
      [] resp.kind \in {"neterr", "httperr", "badjson"} -> {FetchExit(self, TransportFailure)}
      [] OTHER -> {FetchExit(self, UnexpectedFailure)}

\* The exits of one call on the handler `self` (its dataframe) when the
\* HTTP exchange brings back `resp`.  Every exit assigns the dataframe anew.
\* response.json() raises requests' JSONDecodeError, a RequestException in
\* requests >= 2.27 and a plain ValueError before: either handler may run.
fetch_data_from_api(self, resp) ==
    CASE resp.kind \in {"neterr", "httperr"} -> {FetchExit(EmptyFrame, TransportFailure)}
      [] resp.kind = "badjson" ->
            {FetchExit(EmptyFrame, TransportFailure), FetchExit(EmptyFrame, UnexpectedFailure)}
      [] resp.kind \in {"scalar", "badresults"} -> {FetchExit(EmptyFrame, UnexpectedFailure)}
      [] resp.kind \in {"noresults", "emptyresults"} -> {FetchExit(EmptyFrame, EmptyResult)}
      [] OTHER -> { FetchExit(d, Success) : d \in process_data(DataFrame(resp.results)) }

----------------------------------------------------------------------------
(* Read operations of DataHandler *)

RECURSIVE SumSeq(_)
SumSeq(xs) == IF xs = << >> THEN 0 ELSE Head(xs) + SumSeq(Tail(xs))

RECURSIVE MinSeq(_)
MinSeq(xs) ==
    IF Len(xs) = 1 THEN xs[1]
    ELSE LET m == MinSeq(Tail(xs)) IN IF xs[1] <= m THEN xs[1] ELSE m

RECURSIVE MaxSeq(_)
MaxSeq(xs) ==
    IF Len(xs) = 1 THEN xs[1]
    ELSE LET m == MaxSeq(Tail(xs)) IN IF xs[1] >= m THEN xs[1] ELSE m

\* The cells of one column, in row order.
Column(df, c) == [i \in DOMAIN df.rows |-> df.rows[i].cells[c]]

Values(cells) == [i \in DOMAIN cells |-> cells[i].v]

\* A number is the quotient n/d ("num"), the square root of it ("sqrt") or
\* NaN ("nan").
Quantity(kind, n, d) == [k |-> kind, n |-> n, d |-> d]

NaNQuantity == Quantity("nan", 0, 1)

NoSummary == [raised |-> FALSE, text |-> "", records |-> 0, range |-> << >>, totals |-> << >>]

\* get_summary: the text, as its parts.  strftime exists on a Timestamp
\* only and sum/mean with the float format need numbers: on any other cell
\* the call raises (there is no try in get_summary).
get_summary(df) ==
    IF empty(df) THEN [NoSummary EXCEPT !.text = "No data loaded."]
    ELSE
      LET dates    == IF date_heure \in df.cols
                      THEN SelectSeq(Column(df, date_heure), LAMBDA c : ~isna(c))
                      ELSE << >>
          present  == SelectSeq(summary_cols, LAMBDA c : c \in df.cols)
          datesOk  == \A i \in DOMAIN dates : dates[i].k = "dt"
          numbers  == \A j \in DOMAIN present :
                         \A i \in DOMAIN df.rows : df.rows[i].cells[present[j]].k = "num"
      IN  IF ~datesOk \/ ~numbers THEN [NoSummary EXCEPT !.raised = TRUE]
          ELSE [raised  |-> FALSE,
                text    |-> "Data Summary",
                records |-> Len(df.rows),
                range   |-> IF dates = << >> THEN << >>
                            ELSE <<MinSeq(Values(dates)), MaxSeq(Values(dates))>>,
                totals  |-> [j \in DOMAIN present |->
                               [col   |-> present[j],
                                total |-> SumSeq(Values(Column(df, present[j]))),
                                mean  |-> Quantity("num",
                                            SumSeq(Values(Column(df, present[j]))),
                                            Len(df.rows))]]]

\* An export that does not catch what to_csv raises.
export_to_csv_uncaught(df, fsOk) ==
    IF empty(df) THEN [ret |-> FALSE, raised |-> FALSE, wrote |-> FALSE]
    ELSE [ret |-> fsOk, raised |-> ~fsOk, wrote |-> fsOk]

\* export_to_csv: fsOk tells whether to_csv can write the path.
export_to_csv(df, fsOk) ==
    IF empty(df) THEN [ret |-> FALSE, raised |-> FALSE, wrote |-> FALSE]
    ELSE IF fsOk THEN [ret |-> TRUE, raised |-> FALSE, wrote |-> TRUE]
         ELSE [ret |-> FALSE, raised |-> FALSE, wrote |-> FALSE]

\* Plot options listed in the order of _process_data's consumption_cols.
get_plot_options_schema_order(df) ==
    IF empty(df) THEN <<"No data">>
    ELSE SelectSeq(consumption_cols, LAMBDA opt : opt \in df.cols)

\* Plot options without the guard for an empty frame.
get_plot_options_unguarded(df) == SelectSeq(options, LAMBDA opt : opt \in df.cols)

get_plot_options(df) ==
    IF empty(df) THEN <<"No data">>
    ELSE SelectSeq(options, LAMBDA opt : opt \in df.cols)

----------------------------------------------------------------------------
(* MainWindow.handle_fetch_data_and_update_stats (main.py) *)

\* Series.mean()
mean(xs) == Quantity("num", SumSeq(xs), Len(xs))

\* The variance with the denominator N - ddof; NaN when that is not positive.
variance(xs, delta) ==
    LET N == Len(xs)
        S == SumSeq(xs)
        Q == SumSeq([i \in DOMAIN xs |-> xs[i] * xs[i]])
    IN  IF N - delta <= 0 THEN NaNQuantity
        ELSE Quantity("num", N * Q - S * S, N * (N - delta))

\* The default of Series.std() and Series.var(): the sample convention.
ddof == 1

\* The population variance (denominator N).
var_population(xs) == variance(xs, 0)

\* Series.var()
var(xs) == variance(xs, ddof)

\* Series.std(): the square root of var().
std(xs) == LET v == var(xs) IN IF v.k = "nan" THEN v ELSE Quantity("sqrt", v.n, v.d)

\* The text of a label: "0.0" as clear_stats_labels writes it, or a value
\* formatted with ",.2f", which prints NaN as "nan" and a number as digits.
LabelText(kind, q) == [q |-> q, t |-> kind]

Cleared == LabelText("0.0", NaNQuantity)

format(q) == IF q.k = "nan" THEN LabelText("nan", q) ELSE LabelText("digits", q)

StatLabels == {"stats_main", "stats_std", "stats_variance", "stats_max", "stats_min"}

clear_stats_labels == [l \in StatLabels |-> Cleared]

\* What the handler shows for one exit f of the fetch: the branch taken,
\* the dialog opened, the five labels.
update_stats(f) ==
    IF f.ret /\ ~empty(f.dataframe)
    THEN IF stats_column_name \notin f.dataframe.cols
         THEN [raised |-> FALSE, branch |-> "column_not_found",
               dialog |-> "warning: Erreur de Donnees", labels |-> clear_stats_labels]
         ELSE LET series == Column(f.dataframe, stats_column_name)
                  xs     == Values(series)
              IN  IF \E i \in DOMAIN series : series[i].k # "num"
                  THEN [raised |-> TRUE, branch |-> "stats", dialog |-> "none",
                        labels |-> clear_stats_labels]
                  ELSE [raised |-> FALSE, branch |-> "stats", dialog |-> "none",
                        labels |-> [l \in StatLabels |->
                            CASE l = "stats_main" -> format(mean(xs))
                              [] l = "stats_std" -> format(std(xs))
                              [] l = "stats_variance" -> format(var(xs))
                              [] l = "stats_max" -> format(Quantity("num", MaxSeq(xs), 1))
                              [] OTHER -> format(Quantity("num", MinSeq(xs), 1))]]
    ELSE IF f.ret /\ empty(f.dataframe)
         THEN [raised |-> FALSE, branch |-> "success_empty",
               dialog |-> "information: Donnees Vides", labels |-> clear_stats_labels]
         ELSE [raised |-> FALSE, branch |-> "failure",
               dialog |-> "warning: Erreur Reseau", labels |-> clear_stats_labels]

----------------------------------------------------------------------------
(* MainWindow of main_app.py *)

\* _populate_plot_options: the items of the combo box and whether it is
\* enabled; pg is PYQTGRAPH_AVAILABLE.
populate_plot_options(df, pg) ==
    LET opts == get_plot_options(df)
    IN  [items   |-> opts,
         enabled |-> IF opts = << >> \/ opts = <<"No data">> THEN FALSE ELSE pg]

\* update_plot_view for the text the combo box shows: the widget is
\* cleared, a missing-date warning is shown, or the series is handed to
\* the plot widget (lines 166-189).
update_plot_view(df, selected_column, pg) ==
    IF ~pg \/ empty(df) THEN "cleared"
    ELSE IF selected_column = "" \/ selected_column = "No data"
              \/ selected_column \notin df.cols THEN "cleared"
    ELSE IF date_heure \notin df.cols
              \/ \A i \in DOMAIN df.rows : isna(df.rows[i].cells[date_heure])
         THEN "date_missing"
    ELSE "plot"

\* What fetch_and_update_all shows for one exit f of the fetch.  A combo
\* box filled from empty shows its first item.
fetch_and_update_all(f, pg) ==
    LET combo    == populate_plot_options(f.dataframe, pg)
        selected == IF combo.items = << >> THEN "" ELSE combo.items[1]
    IN  IF f.ret /\ ~empty(f.dataframe)
        THEN LET s == get_summary(f.dataframe)
             IN  [raised |-> s.raised, branch |-> "updated", dialog |-> "none",
                  combo |-> combo, summary |-> s,
                  plot |-> update_plot_view(f.dataframe, selected, pg)]
        ELSE IF f.ret /\ empty(f.dataframe)
        THEN [raised |-> FALSE, branch |-> "success_empty", dialog |-> "none",
              combo |-> combo,
              summary |-> [NoSummary EXCEPT !.text = "No data returned from the API."],
              plot |-> "cleared"]
        ELSE [raised |-> FALSE, branch |-> "failure",
              dialog |-> "warning: Data Fetch Error", combo |-> combo,
              summary |-> [NoSummary EXCEPT !.text = "Failed to fetch data. See console for details."],
              plot |-> "cleared"]

----------------------------------------------------------------------------
(* The state machine *)

\* What the last operation returned or showed; the fields an operation
\* does not set keep these values.  had_rows tells whether the handler held
\* a non-empty dataframe when a fetch was called.
NoLast ==
    [outcome |-> "none", ret |-> FALSE, gets |-> 0, raised |-> FALSE,
     fsOk |-> TRUE, wrote |-> FALSE,
     branch |-> "none", dialog |-> "none", labels |-> clear_stats_labels,
     opts |-> << >>, enabled |-> FALSE, summary |-> NoSummary, plot |-> "none",
     op |-> "init", had_rows |-> FALSE]

\* DataHandler.__init__ and MainWindow.__init__.
Init ==
    /\ dataframe = EmptyFrame
    /\ response = NoResponse
    /\ last = NoLast

\* A direct call of fetch_data_from_api.
Fetch(resp) ==
    \E f \in fetch_data_from_api(dataframe, resp) :
        /\ dataframe' = f.dataframe
        /\ response' = resp
        /\ last' = [NoLast EXCEPT !.op = "fetch_data_from_api",
                                  !.had_rows = ~empty(dataframe),
                                  !.ret = f.ret, !.outcome = f.outcome,
                                  !.gets = f.gets]

\* A click on 'fetch_data'.
HandleFetch(resp) ==
    \E f \in fetch_data_from_api(dataframe, resp) :
        \E u \in {update_stats(f)} :
            /\ dataframe' = f.dataframe
            /\ response' = resp
            /\ last' = [NoLast EXCEPT !.op = "handle_fetch_data_and_update_stats",
                                      !.had_rows = ~empty(dataframe),
                                      !.ret = f.ret, !.outcome = f.outcome,
                                      !.gets = f.gets,
                                      !.raised = u.raised, !.branch = u.branch,
                                      !.dialog = u.dialog, !.labels = u.labels]

\* A click on the fetch button of main_app.py.
FetchAndUpdateAll(resp, pg) ==
    \E f \in fetch_data_from_api(dataframe, resp) :
        \E u \in {fetch_and_update_all(f, pg)} :
            /\ dataframe' = f.dataframe
            /\ response' = resp
            /\ last' = [NoLast EXCEPT !.op = "fetch_and_update_all",
                                      !.had_rows = ~empty(dataframe),
                                      !.ret = f.ret, !.outcome = f.outcome,
                                      !.gets = f.gets,
                                      !.raised = u.raised, !.branch = u.branch,
                                      !.dialog = u.dialog, !.summary = u.summary,
                                      !.opts = u.combo.items,
                                      !.enabled = u.combo.enabled,
                                      !.plot = u.plot]

\* A summary that drops the rows without a timestamp from the dataframe
\* itself before it reads the date range.
GetSummaryDroppingRows ==
    \E s \in {get_summary(dataframe)} :
        /\ last' = [NoLast EXCEPT !.op = "get_summary", !.raised = s.raised,
                                  !.summary = s]
        /\ dataframe' =
              IF date_heure \in dataframe.cols
              THEN [dataframe EXCEPT !.rows =
                       SelectSeq(dataframe.rows,
                                 LAMBDA r : ~isna(r.cells[date_heure]))]
              ELSE dataframe
        /\ UNCHANGED response

GetSummary ==
    \E s \in {get_summary(dataframe)} :
        /\ last' = [NoLast EXCEPT !.op = "get_summary", !.raised = s.raised,
                                  !.summary = s]
        /\ UNCHANGED <<dataframe, response>>

GetPlotOptions ==
    /\ last' = [NoLast EXCEPT !.op = "get_plot_options",
                              !.opts = get_plot_options(dataframe)]
    /\ UNCHANGED <<dataframe, response>>

ExportToCsv(fsOk) ==
    \E e \in {export_to_csv(dataframe, fsOk)} :
        /\ last' = [NoLast EXCEPT !.op = "export_to_csv", !.raised = e.raised,
                                  !.ret = e.ret, !.wrote = e.wrote, !.fsOk = fsOk]
        /\ UNCHANGED <<dataframe, response>>

\* _process_data applied once more to the frame it produced.
ProcessAgain ==
    /\ \E d \in process_data(dataframe) : dataframe' = d
    /\ last' = [NoLast EXCEPT !.op = "process_data"]
    /\ UNCHANGED response

Next ==
    \/ \E resp \in Responses : Fetch(resp)
    \/ \E resp \in Responses : HandleFetch(resp)
    \/ \E resp \in Responses, pg \in BOOLEAN : FetchAndUpdateAll(resp, pg)
    \/ GetSummary
    \/ GetPlotOptions
    \/ \E fsOk \in BOOLEAN : ExportToCsv(fsOk)
    \/ ProcessAgain

Spec == Init /\ [][Next]_vars

----------------------------------------------------------------------------
(* Properties *)

IsFetch(l) ==
    l.op \in {"fetch_data_from_api", "handle_fetch_data_and_update_stats",
              "fetch_and_update_all"}

\* C1: after a fetch whose `results` is a non-empty list, the dataset has
\* at least one row and each of the five consumption columns is present and
\* holds a number on every row.
C1_ConsumptionColumnsPresent ==
    response.kind = "records" =>
        /\ Len(dataframe.rows) >= 1
        /\ \A c \in ConsumptionSet :
              /\ c \in dataframe.cols
              /\ \A i \in DOMAIN dataframe.rows : dataframe.rows[i].cells[c].k = "num"

\* C2: the dataset is a function of the most recent fetch alone: the
\* normalised rows of its response when it succeeded, the empty frame when
\* it failed or found nothing; before any fetch it is the empty frame.
C2_DatasetIsLatestFetch ==
    /\ response.kind = "records" =>
          dataframe \in process_data(DataFrame(response.results))
    /\ response.kind # "records" => dataframe = EmptyFrame
    /\ IsFetch(last) => (last.ret <=> response.kind = "records")

\* C2 witness: a fetch on a handler that already held rows left exactly the
\* one row of the new response.
C2_Witness ==
    /\ last.op = "fetch_data_from_api"
    /\ last.had_rows
    /\ response.kind = "records"
    /\ Len(response.results) = 1
    /\ Len(dataframe.rows) = 1
    /\ ~empty(dataframe)

Timestamp(df, i) == df.rows[i].cells[date_heure]

\* C3: when some row has a parsed timestamp, the rows are in ascending
\* order of timestamp and every row without one comes after all rows with
\* one, whatever order the API sent them in.
C3_AscendingTimestamps ==
    (/\ date_heure \in dataframe.cols
     /\ \E i \in DOMAIN dataframe.rows : Timestamp(dataframe, i).k = "dt")
    => \A i, j \in DOMAIN dataframe.rows : i < j =>
          /\ Timestamp(dataframe, i).k = "nat" => Timestamp(dataframe, j).k = "nat"
          /\ (Timestamp(dataframe, i).k = "dt" /\ Timestamp(dataframe, j).k = "dt")
                => Timestamp(dataframe, i).v <= Timestamp(dataframe, j).v
          /\ Timestamp(dataframe, i).k \in {"dt", "nat"}

\* C3 witness: the API sent the later record first and the earlier record
\* is now the first row.
C3_Witness ==
    /\ response.kind = "records"
    /\ Len(response.results) = 2
    /\ response.results[1][date_heure] = Cell("datestr", 2)
    /\ response.results[2][date_heure] = Cell("datestr", 1)
    /\ dataframe.rows[1].idx = 2
    /\ Timestamp(dataframe, 1) = Cell("dt", 1)
    /\ Timestamp(dataframe, 2) = Cell("dt", 2)

\* C4: no public operation of the pipeline lets an exception escape.
C4_NoExceptionEscapes ==
    last.op \in {"fetch_data_from_api", "get_summary", "get_plot_options", "export_to_csv"}
        => ~last.raised

\* C4 witness: the CSV could not be written for a non-empty dataset and the
\* export returned False.
C4_Witness ==
    /\ last.op = "export_to_csv"
    /\ ~last.fsOk
    /\ ~empty(dataframe)
    /\ ~last.raised
    /\ last.ret = FALSE

C6_AbsentColumnReported ==
    (/\ last.op = "handle_fetch_data_and_update_stats"
     /\ last.ret
     /\ stats_column_name \notin dataframe.cols)
    => last.branch = "column_not_found"

Expected(raw) == IF raw.k \in {"num", "numstr"} THEN Cell("num", raw.v) ELSE Cell("num", 0)

\* C8: normalisation keeps exactly one row per raw record and, for each row
\* and each consumption column, holds the record's number when the value
\* coerces and 0 when it is missing (from the record or from all records),
\* null or not coercible.
C8_OneRowPerRecordZeroFilled ==
    response.kind = "records" =>
        /\ Len(dataframe.rows) = Len(response.results)
        /\ { dataframe.rows[i].idx : i \in DOMAIN dataframe.rows } = DOMAIN response.results
        /\ \A i \in DOMAIN dataframe.rows : \A c \in ConsumptionSet :
              /\ c \in dataframe.cols
              /\ dataframe.rows[i].cells[c]
                    = Expected(response.results[dataframe.rows[i].idx][c])

\* The position of the row with index label idx.
Position(df, idx) == CHOOSE k \in DOMAIN df.rows : df.rows[k].idx = idx

\* Rows i and j of df have equal parsed timestamps.
Tied(df, i, j) ==
    /\ date_heure \in df.cols
    /\ Timestamp(df, i).k = "dt"
    /\ Timestamp(df, i) = Timestamp(df, j)

RowSet(df) == { df.rows[i] : i \in DOMAIN df.rows }

\* C9 as claimed: a second pass of the normalisation changes no value, no
\* column and no row order.
C9_SecondPassChangesNothing ==
    [][last'.op = "process_data" => dataframe' = dataframe]_vars

\* C9 amended: a second pass changes no value and no column, and keeps the
\* relative order of every two rows except rows with equal parsed
\* timestamps, which the sort may exchange.
C9_SecondPassKeepsValues ==
    [][last'.op = "process_data" =>
          /\ dataframe'.cols = dataframe.cols
          /\ Len(dataframe'.rows) = Len(dataframe.rows)
          /\ RowSet(dataframe') = RowSet(dataframe)
          /\ \A i, j \in DOMAIN dataframe.rows :
                (i < j /\ ~Tied(dataframe, i, j)) =>
                    Position(dataframe', dataframe.rows[i].idx)
                        < Position(dataframe', dataframe.rows[j].idx)]_vars

\* C9 witness: the second pass ran on a normalised frame of two rows with
\* a timestamp column.
C9_Witness ==
    /\ last.op = "process_data"
    /\ Len(dataframe.rows) = 2
    /\ date_heure \in dataframe.cols
    /\ Timestamp(dataframe, 1).k = "dt"

ReadOps == {"get_summary", "get_plot_options", "export_to_csv"}

\* The plot columns in the order of priority the options are offered in.
Priority ==
    <<consumption_cols[4], consumption_cols[3], consumption_cols[5],
      consumption_cols[1], consumption_cols[2]>>

\* C11: for a non-empty dataset the plot options are the consumption
\* columns of the schema, each once, in the order electricity_rte,
\* gaz_totale, totale, gaz_grtgaz, gaz_terega, without the 'No data'
\* sentinel and without a column the schema lacks; a normalised dataset
\* has all five.
C11_PlotOptionsInPriorityOrder ==
    (last.op \in {"get_plot_options", "fetch_and_update_all"} /\ ~empty(dataframe))
    => /\ \A i \in DOMAIN last.opts :
             /\ last.opts[i] # "No data"
             /\ last.opts[i] \in dataframe.cols
             /\ \E p \in DOMAIN Priority : Priority[p] = last.opts[i]
       /\ \A i, j \in DOMAIN last.opts :
             i < j => \E p, q \in DOMAIN Priority :
                         /\ p < q
                         /\ Priority[p] = last.opts[i]
                         /\ Priority[q] = last.opts[j]
       /\ \A p \in DOMAIN Priority :
             Priority[p] \in dataframe.cols
                => \E i \in DOMAIN last.opts : last.opts[i] = Priority[p]
       /\ last.opts = Priority

\* C11 witness: no record of the response had an electricity_rte key, and
\* the options of the dataset start with that column and list all five.
C11_Witness ==
    /\ last.op = "get_plot_options"
    /\ ~empty(dataframe)
    /\ response.kind = "records"
    /\ \A i \in DOMAIN response.results :
          response.results[i][consumption_cols[4]] = Absent
    /\ Len(last.opts) = 5
    /\ last.opts[1] = consumption_cols[4]

\* C12: get_summary, get_plot_options and export_to_csv leave the dataset
\* as it was (rows, columns, values, order), whether they succeed or fail;
\* the dataset changes only in a fetch (or in its _process_data).
C12_ReadsLeaveDataset ==
    [][/\ last'.op \in ReadOps => dataframe' = dataframe
       /\ dataframe' # dataframe => (IsFetch(last') \/ last'.op = "process_data")]_vars

\* C12 witness: an export of a two-row dataset failed on the file system
\* and the dataset is still the normalised response of the last fetch.
C12_Witness ==
    /\ last.op = "export_to_csv"
    /\ ~last.fsOk
    /\ last.ret = FALSE
    /\ Len(dataframe.rows) = 2
    /\ dataframe \in process_data(DataFrame(response.results))

\* C13: every call of fetch_data_from_api sends exactly one GET, whatever
\* its outcome, and no other operation sends one.
C13_OneGetPerFetch ==
    /\ IsFetch(last) =>
          /\ last.outcome \in {Success, EmptyResult, TransportFailure, UnexpectedFailure}
          /\ last.gets = 1
    /\ ~IsFetch(last) => last.gets = 0

\* C13 witness: a fetch on a handler that held rows ended in a transport
\* failure after one GET.
C13_Witness ==
    /\ last.op = "fetch_data_from_api"
    /\ last.had_rows
    /\ last.outcome = TransportFailure
    /\ last.gets = 1

\* C14: the boolean a fetch returns is True exactly when the dataset it
\* leaves is non-empty, so no caller takes its 'success and dataset empty'
\* branch.
C14_ReturnAgreesWithDataset ==
    IsFetch(last) =>
        /\ last.ret <=> ~empty(dataframe)
        /\ last.branch # "success_empty"

====
